---- MODULE Spec2Model ----
(***************************************************************************)
(* Model of internal/tlasca/tlasca.go: Runner.temporalWindowContrast and   *)
(* Runner.calculateContrastMap (the row-partitioned worker pool, the       *)
(* WaitGroup join and the scaling of contrast values to bytes).            *)
(*                                                                         *)
(* float64 values are modelled as records [k, v]: k = "num" is the finite  *)
(* non-negative value v / Scale (fixed point, rounded down), k = "nan" is  *)
(* NaN and k = "inf" is +Inf.  Negative floats never arise in the code     *)
(* (sums of squares, square roots, quotients of non-negative numbers).     *)
(***************************************************************************)
EXTENDS Integers, Sequences, FiniteSets

\* ---------------------------------------------------------------- bounds
MaxFrames  == 2
MaxW       == 2
MaxH       == 3
MaxWorkers == 2
\* Resolution of the fixed-point image of float64: one unit is 1/Scale.
Scale      == 1000

\* color.Gray{Y: intensity} holds a byte; math.Min(..., 255) in the scaling.
ByteMax == 255

\* The frames the inputs are drawn from: a pattern and its intensity (bytes,
\* kept small so that every product of the exact arithmetic below stays
\* below 2^31).
FrameKinds == { <<"flat", 0>>, <<"flat", 5>>, <<"checker", 5>>, <<"ramp", 0>> }
\* The smaller family used where the pixel content does not matter.
FewFrameKinds == { <<"flat", 0>>, <<"flat", 5>> }

\* F(x), with x evaluated once and bound to its value (TLC may otherwise
\* evaluate an argument again at each of its uses).
With(x, F(_)) == CHOOSE r \in { F(v) : v \in {x} } : TRUE

Min2(a, b) == IF a <= b THEN a ELSE b
Max2(a, b) == IF a >= b THEN a ELSE b

\* ---------------------------------------------------------------- float64
Num(n) == [k |-> "num", v |-> n]
NaN    == [k |-> "nan", v |-> 0]
Inf    == [k |-> "inf", v |-> 0]
Zero   == Num(0)

\* The float64 sum of a sequence of non-negative values, added left to right
\* (IEEE 754: a NaN term makes the sum NaN, else a +Inf term makes it +Inf).
RECURSIVE SumSeq(_)
SumSeq(s) == IF s = <<>> THEN 0 ELSE Head(s) + SumSeq(Tail(s))

FSum(cs) ==
  IF \E k \in DOMAIN cs : cs[k].k = "nan" THEN NaN
  ELSE IF \E k \in DOMAIN cs : cs[k].k = "inf" THEN Inf
  ELSE Num(With([k \in DOMAIN cs |-> cs[k].v], SumSeq))

\* a / float64(n) for an integer n >= 0 (IEEE 754: 0/0 = NaN, x/0 = +Inf).
FDivInt(a, n) ==
  IF a.k = "nan" THEN NaN
  ELSE IF n = 0 THEN (IF a.k = "num" /\ a.v = 0 THEN NaN ELSE Inf)
  ELSE IF a.k = "inf" THEN Inf
  ELSE Num(a.v \div n)

\* floor(sqrt(n)) for 0 <= n < 2^31, one binary digit at a time from bit b down.
RECURSIVE ISqrtBits(_, _, _)
ISqrtBits(n, r, b) ==
  IF b = 0 THEN r
  ELSE IF r + b <= 46340 /\ (r + b) * (r + b) <= n
         THEN ISqrtBits(n, r + b, b \div 2)
         ELSE ISqrtBits(n, r, b \div 2)

ISqrt(n) == With(n, LAMBDA m : ISqrtBits(m, 0, 32768))

\* ---------------------------------------------------------------- frames
\* An *image.Gray: its bounds (0,0)-(w,h) and one byte per pixel.
MakeFrame(w, h, pat, b) ==
  [w |-> w, h |-> h,
   pix |-> [p \in (0 .. w - 1) \X (0 .. h - 1) |->
              CASE pat = "flat"    -> b
                [] pat = "checker" -> IF (p[1] + p[2]) % 2 = 0 THEN b ELSE 0
                [] pat = "ramp"    -> b + p[2]]]

FrameSet(w, h, kinds) == { MakeFrame(w, h, kd[1], kd[2]) : kd \in kinds }

\* image.Gray.GrayAt: the pixel, or color.Gray{} (Y = 0) outside the bounds.
GrayAt(img, x, y) ==
  IF x >= 0 /\ x < img.w /\ y >= 0 /\ y < img.h THEN img.pix[<<x, y>>] ELSE 0

\* ------------------------------------------------ temporalWindowContrast
\* values: the time series of one pixel (tlasca.go 74-77).
Values(images, px, py) == [t \in 1 .. Len(images) |-> GrayAt(images[t], px, py)]

\* N * mean: the sum of the series (tlasca.go 79-82; mean = SeriesSum / N).
SeriesSum(values) == SumSeq(values)

\* N^2 * sumDiff2, exactly: diff = v - mean, so N * diff = N * v - SeriesSum
\* (tlasca.go 86-90).
\* Faulty variant: the mean is not subtracted.
SumDiff2Biased(values) ==
  LET n == Len(values)
  IN  With([t \in 1 .. n |-> (n * values[t]) * (n * values[t])], SumSeq)
SumDiff2(values) ==
  LET n == Len(values)
  IN  With(SeriesSum(values), LAMBDA s :
        With([t \in 1 .. n |-> (n * values[t] - s) * (n * values[t] - s)], SumSeq))

\* stdDev / mean (tlasca.go 92-93, 96), where
\*   variance = sumDiff2 / (N - 1),  stdDev = sqrt(variance),  mean = sum / N,
\* hence stdDev / mean = sqrt( N^2 * sumDiff2 / ((N - 1) * sum^2) ).
\* N = 1 makes variance 0/0 = NaN, and NaN / mean = NaN; a zero mean makes the
\* quotient 0/0 = NaN (stdDev = 0) as every value is 0.
StdDevOverMean(values) ==
  With(SumDiff2(values), LAMBDA sd :
    With((Len(values) - 1) * SeriesSum(values) * SeriesSum(values), LAMBDA den :
      IF den = 0 THEN (IF sd = 0 THEN NaN ELSE Inf)
      ELSE Num(ISqrt((Scale * Scale * sd) \div den))))

\* What one window pixel adds to sumVar (tlasca.go 94-97): the quotient is
\* formed only when mean > 0.
\* Faulty variant: the quotient is formed without the mean > 0 guard.
PixelContrastUnguarded(values) == StdDevOverMean(values)
PixelContrast(values) ==
  IF SeriesSum(values) > 0 THEN StdDevOverMean(values) ELSE Zero

\* What the window pixels add to sumVar, in the order of the loops over dy
\* and dx (tlasca.go 70-98).
WindowContrasts(images, ws, x, y) ==
  [k \in 1 .. ws * ws |->
     With(Values(images, x + ((k - 1) % ws), y + ((k - 1) \div ws)), PixelContrast)]

\* temporalWindowContrast(images, x, y) with r.algorithm.WindowSize = ws
\* (tlasca.go 64-101): sumVar / pixelCount.
temporalWindowContrast(images, ws, x, y) ==
  With(WindowContrasts(images, ws, x, y), LAMBDA cs :
    With(FSum(cs), LAMBDA sumVar : FDivInt(sumVar, ws * ws)))

\* ------------------------------------------------------------------ state
VARIABLES
  frames,        \* grayImages: the frame sequence handed to Run
  windowSize,    \* r.algorithm.WindowSize
  numWorkers,    \* runtime.NumCPU()
  pc,            \* where calculateContrastMap is: start, spawn, scale, done, panic
  i,             \* loop index of the spawning loop
  wg,            \* counter of the sync.WaitGroup
  worker,        \* per goroutine: st, startY, endY, y and the local row
  listContrast,  \* the shared result buffer, row index -> row (nil = <<>>)
  changeMap,     \* the returned *image.Gray
  writtenBy      \* history: row index -> goroutines that stored that row

vars == <<frames, windowSize, numWorkers, pc, i, wg, worker, listContrast,
          changeMap, writtenBy>>

\* bounds := grayImages[0].Bounds(); widthNew, heightNew (tlasca.go 128-130).
\* Faulty variant: the + 1 is missing.
widthNewOffByOne == frames[1].w - windowSize
widthNew  == frames[1].w - windowSize + 1
heightNew == frames[1].h - windowSize + 1

\* rowsPerWorker := heightNew / numWorkers (tlasca.go 138); heightNew >= 0 here.
rowsPerWorker == heightNew \div numWorkers

\* wg.Add(numWorkers) (tlasca.go 139).
\* Faulty variant: one goroutine too many is announced.
WgAddOneMore == numWorkers + 1
WgAdd == numWorkers

\* startY, endY of goroutine k (tlasca.go 142-148).
\* Faulty variant: a stripe starts one row early.
StartYOverlap(k) == Max2(0, k * rowsPerWorker - 1)
StartY(k) == k * rowsPerWorker

\* Faulty variant: the last goroutine does not take the remainder rows.
EndYNoRemainder(k) == (k + 1) * rowsPerWorker
EndY(k) == IF k = numWorkers - 1 THEN heightNew ELSE (k + 1) * rowsPerWorker

\* wg.Wait() returns when the counter is 0 (tlasca.go 168).
\* Faulty variant: the wait is over with one goroutine still running.
WaitReturnsEarly == wg <= 1
WaitReturns == wg = 0

\* The row a goroutine builds for output row y (tlasca.go 157-161).
\* Faulty variant: the row index is taken relative to the stripe.
ComputedRowShifted(y) ==
  [x \in 1 .. Max2(widthNew, 0) |->
     temporalWindowContrast(frames, windowSize, x - 1, y % Max2(rowsPerWorker, 1))]
ComputedRow(y) ==
  [x \in 1 .. Max2(widthNew, 0) |->
     temporalWindowContrast(frames, windowSize, x - 1, y)]

\* byte(math.Min(c * 255, 255)) (tlasca.go 176).  Go's float-to-integer
\* conversion drops the fraction; for a value the target cannot hold (NaN) the
\* result is implementation-dependent: impl is the byte the build produces.
\* Faulty variant: the scaled value is rounded to the nearest integer.
IntensityRounded(c, impl) ==
  IF c.k = "nan" THEN impl
  ELSE IF c.k = "inf" THEN ByteMax
  ELSE Min2((2 * c.v * ByteMax + Scale) \div (2 * Scale), ByteMax)
Intensity(c, impl) ==
  IF c.k = "nan" THEN impl
  ELSE IF c.k = "inf" THEN ByteMax
  ELSE Min2((c.v * ByteMax) \div Scale, ByteMax)

\* image.Rect(0, 0, widthNew, heightNew): a well-formed rectangle (the
\* coordinates are swapped where needed); image.NewGray zeroes every pixel.
NoImage == [made |-> FALSE, minX |-> 0, minY |-> 0, maxX |-> 0, maxY |-> 0, pix |-> <<>>]
NewGray(w, h) ==
  [made |-> TRUE,
   minX |-> Min2(0, w), minY |-> Min2(0, h), maxX |-> Max2(0, w), maxY |-> Max2(0, h),
   pix  |-> [p \in (Min2(0, w) .. Max2(0, w) - 1) \X (Min2(0, h) .. Max2(0, h) - 1) |-> 0]]

Idle == [st |-> "idle", startY |-> 0, endY |-> 0, y |-> 0, row |-> <<>>]

\* ------------------------------------------------------------------ inputs
Fresh ==
  /\ pc = "start"
  /\ i = 0
  /\ wg = 0
  /\ worker = [k \in 0 .. numWorkers - 1 |-> Idle]
  /\ listContrast = <<>>
  /\ changeMap = NoImage
  /\ writtenBy = <<>>

\* Valid inputs only.
Init ==
  /\ \E n \in 2 .. MaxFrames, w \in 1 .. MaxW, h \in 1 .. MaxH :
       /\ frames \in [1 .. n -> FrameSet(w, h, FrameKinds)]
       /\ windowSize \in 1 .. Min2(w, h)
  /\ numWorkers \in 1 .. MaxWorkers
  /\ Fresh

\* Valid inputs from the smaller family of frames.
InitFew ==
  /\ \E n \in 2 .. MaxFrames, w \in 1 .. MaxW, h \in 1 .. MaxH :
       /\ frames \in [1 .. n -> FrameSet(w, h, FewFrameKinds)]
       /\ windowSize \in 1 .. Min2(w, h)
  /\ numWorkers \in 1 .. MaxWorkers
  /\ Fresh

\* Whatever Run may be handed: a single frame, a last frame of another size,
\* a window size of 0 or beyond the frame.
InitAny ==
  /\ \E n \in 1 .. MaxFrames, w \in 1 .. MaxW, h \in 1 .. MaxH :
       /\ \E fs \in [1 .. n -> FrameSet(w, h, FewFrameKinds)],
             last \in FrameSet(w, h, FewFrameKinds) \cup FrameSet(1, 1, FewFrameKinds) :
            frames = [fs EXCEPT ![n] = last]
       /\ windowSize \in 0 .. Max2(w, h) + 1
  /\ numWorkers \in 1 .. MaxWorkers
  /\ Fresh

\* ----------------------------------------------------------------- actions
\* tlasca.go 128-139: the dimensions, make([][]float64, heightNew) (which
\* panics for a negative length) and wg.Add(numWorkers).
Start ==
  /\ pc = "start"
  /\ IF heightNew < 0
       THEN /\ pc' = "panic"
            /\ UNCHANGED <<wg, listContrast, writtenBy>>
       ELSE /\ pc' = "spawn"
            /\ listContrast' = [y \in 0 .. heightNew - 1 |-> <<>>]
            /\ writtenBy' = [y \in 0 .. heightNew - 1 |-> {}]
            /\ wg' = WgAdd
  /\ UNCHANGED <<frames, windowSize, numWorkers, i, worker, changeMap>>

\* tlasca.go 140-167: one iteration of the loop starts goroutine i on its range.
Spawn ==
  /\ pc = "spawn"
  /\ i < numWorkers
  /\ worker' = [worker EXCEPT ![i] =
                  [st |-> "run", startY |-> StartY(i), endY |-> EndY(i),
                   y |-> StartY(i), row |-> <<>>]]
  /\ i' = i + 1
  /\ UNCHANGED <<frames, windowSize, numWorkers, pc, wg, listContrast, changeMap,
                 writtenBy>>

\* tlasca.go 155-161: a goroutine builds the row for its current y.
ComputeRow(k) ==
  /\ pc \notin {"panic", "done"}
  /\ worker[k].st = "run"
  /\ worker[k].y < worker[k].endY
  /\ worker' = [worker EXCEPT ![k].st = "store", ![k].row = ComputedRow(worker[k].y)]
  /\ UNCHANGED <<frames, windowSize, numWorkers, pc, i, wg, listContrast, changeMap,
                 writtenBy>>

\* tlasca.go 164 and the y++ of line 155: listContrast[y] = row (an index
\* outside the buffer panics).
StoreRow(k) ==
  /\ pc \notin {"panic", "done"}
  /\ worker[k].st = "store"
  /\ IF worker[k].y \in DOMAIN listContrast
       THEN /\ listContrast' = [listContrast EXCEPT ![worker[k].y] = worker[k].row]
            /\ writtenBy' = [writtenBy EXCEPT ![worker[k].y] = @ \cup {k}]
            /\ worker' = [worker EXCEPT ![k].st = "run", ![k].y = @ + 1,
                                        ![k].row = <<>>]
            /\ pc' = pc
       ELSE /\ pc' = "panic"
            /\ UNCHANGED <<listContrast, writtenBy, worker>>
  /\ UNCHANGED <<frames, windowSize, numWorkers, i, wg, changeMap>>

\* tlasca.go 152: the deferred wg.Done() when the goroutine's loop is over.
WorkerDone(k) ==
  /\ pc \notin {"panic", "done"}
  /\ worker[k].st = "run"
  /\ worker[k].y >= worker[k].endY
  /\ worker' = [worker EXCEPT ![k].st = "done"]
  /\ wg' = wg - 1
  /\ UNCHANGED <<frames, windowSize, numWorkers, pc, i, listContrast, changeMap,
                 writtenBy>>

\* tlasca.go 168: the loop is over and wg.Wait() returns.
Wait ==
  /\ pc = "spawn"
  /\ i = numWorkers
  /\ WaitReturns
  /\ pc' = "scale"
  /\ UNCHANGED <<frames, windowSize, numWorkers, i, wg, worker, listContrast,
                 changeMap, writtenBy>>

\* The bytes byte(NaN) may be on some build, when a NaN is about to be converted.
ImplBytes ==
  IF \E y \in DOMAIN listContrast : \E x \in 1 .. Len(listContrast[y]) :
       listContrast[y][x].k = "nan"
    THEN 0 .. ByteMax ELSE {0}

\* tlasca.go 171-180: image.NewGray and the scaling loop; listContrast[y][x]
\* panics on a row shorter than widthNew.
ScaleMap ==
  /\ pc = "scale"
  /\ IF \E y \in 0 .. heightNew - 1 : Len(listContrast[y]) < widthNew
       THEN /\ pc' = "panic"
            /\ changeMap' = NewGray(widthNew, heightNew)
       ELSE /\ pc' = "done"
            /\ \E impl \in ImplBytes :
                 changeMap' =
                   [NewGray(widthNew, heightNew) EXCEPT !.pix =
                      [p \in DOMAIN @ |->
                         IF p[1] \in 0 .. widthNew - 1 /\ p[2] \in 0 .. heightNew - 1
                           THEN Intensity(listContrast[p[2]][p[1] + 1], impl)
                           ELSE 0]]
  /\ UNCHANGED <<frames, windowSize, numWorkers, i, wg, worker, listContrast,
                 writtenBy>>

Workers == 0 .. numWorkers - 1

Next ==
  \/ Start
  \/ Spawn
  \/ \E k \in Workers : ComputeRow(k)
  \/ \E k \in Workers : StoreRow(k)
  \/ \E k \in Workers : WorkerDone(k)
  \/ Wait
  \/ ScaleMap

Spec    == Init /\ [][Next]_vars
SpecAny == InitAny /\ [][Next]_vars

\* The Go scheduler runs every runnable goroutine: the caller and each worker
\* keep taking their steps.
Fairness ==
  /\ WF_vars(Start \/ Spawn \/ Wait \/ ScaleMap)
  /\ \A k \in 0 .. MaxWorkers - 1 :
       WF_vars(k \in Workers /\ (ComputeRow(k) \/ StoreRow(k) \/ WorkerDone(k)))
FairSpec == InitFew /\ [][Next]_vars /\ Fairness

\* ------------------------------------------------------------------ claims
AllDone == \A k \in Workers : worker[k].st = "done"
Range(k) == worker[k].startY .. worker[k].endY - 1
OutCells == (0 .. frames[1].w - windowSize) \X (0 .. frames[1].h - windowSize)
Cell(p) == listContrast[p[2]][p[1] + 1]

SameSize(fs) == \A t \in 1 .. Len(fs) : fs[t].w = fs[1].w /\ fs[t].h = fs[1].h

\* len(frames) >= 2, identical dimensions, 1 <= windowSize <= min(W, H).
ValidInput ==
  /\ Len(frames) >= 2
  /\ SameSize(frames)
  /\ windowSize >= 1
  /\ windowSize <= Min2(frames[1].w, frames[1].h)

\* C1: once all numWorkers goroutines have been handed their ranges, the
\* ranges [startY, endY) start at row 0, each begins where the one before it
\* ends, none is reversed, the last ends at heightNew, and every output row
\* lies in exactly one of them (also when heightNew < numWorkers or heightNew = 0).
C1_Partition ==
  (i = numWorkers) =>
    /\ worker[0].startY = 0
    /\ \A k \in Workers : worker[k].startY <= worker[k].endY
    /\ \A k \in Workers : k + 1 \in Workers => worker[k].endY = worker[k + 1].startY
    /\ worker[numWorkers - 1].endY = frames[1].h - windowSize + 1
    /\ \A y \in 0 .. frames[1].h - windowSize :
         Cardinality({ k \in Workers : y \in Range(k) }) = 1

C1_Witness ==
  /\ i = numWorkers
  /\ heightNew >= 1
  /\ heightNew < numWorkers
  /\ \E k \in Workers : Range(k) = {}

\* C2: an invalid input (one frame, frames of different sizes, windowSize 0,
\* windowSize > min(W, H)) is rejected before any computation: no goroutine
\* is ever started and no map is ever made for it.
C2_RejectedBeforeComputation ==
  ~ValidInput =>
    /\ \A k \in Workers : worker[k].st = "idle"
    /\ ~changeMap.made
    /\ pc # "done"

\* C3: the call never fails and the map it returns is the map one sequential
\* pass over rows 0 .. heightNew-1 computes, whatever numWorkers is and however
\* the goroutines' steps interleave.
SequentialMap ==
  [made |-> TRUE, minX |-> 0, minY |-> 0,
   maxX |-> frames[1].w - windowSize + 1, maxY |-> frames[1].h - windowSize + 1,
   pix  |-> [p \in OutCells |->
               Intensity(temporalWindowContrast(frames, windowSize, p[1], p[2]), 0)]]

C3_WorkerCountInvariance ==
  /\ pc # "panic"
  /\ pc = "done" => changeMap = SequentialMap

C3_Witness ==
  /\ pc = "done"
  /\ numWorkers >= 2
  /\ heightNew > numWorkers
  /\ \E p, q \in DOMAIN changeMap.pix : changeMap.pix[p] # changeMap.pix[q]

\* C4: the join is a barrier: the scaling phase is not entered and no output
\* image exists unless every goroutine has finished, and then every row of
\* listContrast has been stored with widthNew values.
C4_Barrier ==
  (pc \in {"scale", "done"} \/ changeMap.made) =>
    /\ AllDone
    /\ \A y \in 0 .. frames[1].h - windowSize :
         /\ writtenBy[y] # {}
         /\ Len(listContrast[y]) = frames[1].w - windowSize + 1

C4_Witness ==
  /\ pc = "scale"
  /\ numWorkers >= 2
  /\ heightNew >= 2

\* C5: no row of listContrast is ever stored by two goroutines: a row is
\* stored only by the goroutine whose range holds it, the ranges of two
\* goroutines never share a row, and two goroutines about to store never
\* hold the same row index.
C5_DisjointRows ==
  /\ \A y \in DOMAIN writtenBy :
       /\ Cardinality(writtenBy[y]) <= 1
       /\ \A k \in writtenBy[y] : y \in Range(k)
  /\ \A j, k \in Workers :
       j # k =>
         /\ Range(j) \cap Range(k) = {}
         /\ (worker[j].st = "store" /\ worker[k].st = "store") => worker[j].y # worker[k].y

C5_Witness ==
  \E j, k \in Workers :
    /\ j # k
    /\ worker[j].st = "store"
    /\ worker[k].st = "store"
    /\ \E y \in DOMAIN writtenBy : writtenBy[y] # {}

\* C6 as claimed: every cell of the returned map is
\* min(round(contrastValue * 255), 255), rounded to the nearest integer.
C6_RoundedToNearest ==
  pc = "done" =>
    \A p \in OutCells :
      /\ Cell(p).k = "num"
      /\ changeMap.pix[p] =
           Min2((2 * Cell(p).v * ByteMax + Scale) \div (2 * Scale), ByteMax)

\* C6 as amended: every cell of the returned map is
\* min(floor(contrastValue * 255), 255): the integer part b of the scaled value
\* (b <= contrastValue * 255 < b + 1), or exactly 255 when the scaled value is
\* 255 or more.
C6_Truncated ==
  pc = "done" =>
    \A p \in OutCells :
      LET c == Cell(p)
          b == changeMap.pix[p]
      IN  /\ c.k = "num"
          /\ b \in 0 .. ByteMax
          /\ \/ b * Scale <= ByteMax * c.v /\ ByteMax * c.v < (b + 1) * Scale
             \/ b = ByteMax /\ ByteMax * c.v >= ByteMax * Scale

\* A returned map with a cell whose scaled value has a fraction of 1/2 or more
\* and a cell above 255.
C6_Witness ==
  /\ pc = "done"
  /\ \E p \in OutCells :
       /\ ByteMax * Cell(p).v < ByteMax * Scale
       /\ 2 * ((ByteMax * Cell(p).v) % Scale) >= Scale
  /\ \E p \in OutCells : ByteMax * Cell(p).v > ByteMax * Scale

\* C7: for valid inputs the result buffer has H - windowSize + 1 rows, each
\* stored row has W - windowSize + 1 values, and the returned map is
\* (W - windowSize + 1) wide and (H - windowSize + 1) high.
C7_Dimensions ==
  /\ pc # "start" => DOMAIN listContrast = 0 .. frames[1].h - windowSize
  /\ \A y \in DOMAIN listContrast :
       writtenBy[y] # {} => Len(listContrast[y]) = frames[1].w - windowSize + 1
  /\ changeMap.made =>
       /\ changeMap.maxX - changeMap.minX = frames[1].w - windowSize + 1
       /\ changeMap.maxY - changeMap.minY = frames[1].h - windowSize + 1
       /\ DOMAIN changeMap.pix = OutCells

C7_Witness ==
  /\ pc = "done"
  /\ windowSize >= 2
  /\ frames[1].w # frames[1].h

\* C8: if all frames are identical, temporalWindowContrast is 0 at every
\* output coordinate and the returned map is 0 in every cell.
ConstantSequence == \A t \in 1 .. Len(frames) : frames[t] = frames[1]

C8_ConstantSequence ==
  ConstantSequence =>
    /\ \A p \in OutCells :
         temporalWindowContrast(frames, windowSize, p[1], p[2]) = Zero
    /\ \A y \in DOMAIN listContrast : \A x \in 1 .. Len(listContrast[y]) :
         listContrast[y][x] = Zero
    /\ pc = "done" => \A p \in DOMAIN changeMap.pix : changeMap.pix[p] = 0

C8_Witness ==
  /\ ConstantSequence
  /\ pc = "done"
  /\ \E p \in DOMAIN frames[1].pix : frames[1].pix[p] # 0
  /\ \E p, q \in DOMAIN frames[1].pix : frames[1].pix[p] # frames[1].pix[q]

\* C9: a pixel that is 0 in every frame adds exactly 0 to its window's sum,
\* and for valid inputs every window contrast a goroutine has computed or
\* stored is a finite non-negative number (never NaN, never infinite).
DarkPixel(p) == \A t \in 1 .. Len(frames) : GrayAt(frames[t], p[1], p[2]) = 0

C9_ZeroMean ==
  /\ \A p \in DOMAIN frames[1].pix :
       DarkPixel(p) => PixelContrast(Values(frames, p[1], p[2])) = Zero
  /\ \A y \in DOMAIN listContrast : \A x \in 1 .. Len(listContrast[y]) :
       listContrast[y][x].k = "num" /\ listContrast[y][x].v >= 0
  /\ \A k \in Workers : \A x \in 1 .. Len(worker[k].row) :
       worker[k].row[x].k = "num" /\ worker[k].row[x].v >= 0

\* A stored window that holds a dark pixel beside a fluctuating one.
C9_Witness ==
  /\ pc = "done"
  /\ windowSize >= 2
  /\ \E p \in DOMAIN frames[1].pix : DarkPixel(p)
  /\ \E p \in OutCells : Cell(p).v > 0

\* C10: under fair scheduling every call on valid inputs returns: the
\* WaitGroup counter is numWorkers less the goroutines that have signalled
\* Done, it is never negative, and the call reaches its return.
C10_Terminates ==
  /\ [](pc # "start" =>
          /\ wg >= 0
          /\ wg = numWorkers - Cardinality({ k \in Workers : worker[k].st = "done" }))
  /\ [](pc # "panic")
  /\ <>(pc = "done" /\ wg = 0 /\ AllDone)

C10_Witness ==
  /\ pc = "done"
  /\ numWorkers >= 2
  /\ \E k \in Workers : worker[k].st = "done" /\ Range(k) = {}
  /\ \E k \in Workers : worker[k].st = "done" /\ Range(k) # {}

====
